---- MODULE Spec2Model ----
(***************************************************************************)
(* Order status lifecycle of shopOrder: the status registry and validator  *)
(* (OrderStatusService), the transition executor (transitionStatus), the   *)
(* boundary middleware (StatusValidationMiddleware) and the two HTTP       *)
(* handlers that drive it (updateOrderStatus, cancelOrder), over a         *)
(* transactional store with one table of orders, one of status flows and   *)
(* one of order histories.                                                 *)
(*                                                                         *)
(* The store is MySQL/InnoDB behind Sequelize (db.js): writes made with a  *)
(* transaction are private to it until commit, an UPDATE of a row holds    *)
(* that row's lock until the transaction ends, a write made without a      *)
(* transaction commits by itself, and any statement may fail.              *)
(*                                                                         *)
(* Chinese string literals of the source are written in ASCII:             *)
(*   caogao = 草稿, chulizhong = 处理中, yiwancheng = 已完成,               *)
(*   yiquxiao = 已取消, "dingdan quxiao" = 订单取消,                        *)
(*   "dingdan zhuangtai cong X biangeng wei Y" = 订单状态从 X 变更为 Y.     *)
(***************************************************************************)
EXTENDS Integers, Sequences, FiniteSets, TLC

VARIABLES
  orders,      \* table orders: id -> row (committed)
  flows,       \* table order_status_flows, in creation order (committed)
  histories,   \* table order_histories, in creation order (committed)
  lock,        \* row lock of each order: the request whose transaction holds it
  req,         \* each in-flight request: where it is and what it carries
  tx,          \* each request's transaction: its state and its private writes
  started,     \* number of requests received so far
  nCommitted,  \* per order: number of transitions whose writes were committed
  snap,        \* the latest direct call of transitionStatus: its arguments, the
               \* committed tables as it began, and how it ended
  calls        \* the latest calls of the registry's and validator's functions

vars == <<orders, flows, histories, lock, req, tx, started, nCommitted, snap, calls>>

----------------------------------------------------------------------------
(* Bounds of the model *)

MaxOrders == 2
MaxRequests == 2
MaxCalls == 2

Reqs == {"r1", "r2"}
OrderIds == 1..MaxOrders
NoReq == "none"
Undefined == "<undefined>"

\* a key every JavaScript object inherits from Object.prototype (as
\* "toString", "valueOf", "hasOwnProperty", "__proto__" are): looked up on a
\* plain object it yields a value that is truthy and is not an array
ObjectPrototypeKeys == {"constructor"}

\* request inputs: the body's remark with the x-wx-openid header, and the
\* body's role
Senders ==
  {[remark |-> Undefined, openid |-> Undefined],
   [remark |-> "note", openid |-> "wx1"]}
BodyRoles == {Undefined, "guest", "constructor"}

\* PUT /:id/cancel does not validate its body: the remark may be anything,
\* the empty string included
CancelSenders == Senders \cup {[remark |-> "", openid |-> Undefined]}

----------------------------------------------------------------------------
(* Status registry and validator: OrderStatusService *)

STATUS ==
  [DRAFT |-> "draft", PROCESSING |-> "processing",
   COMPLETED |-> "completed", CANCELLED |-> "cancelled"]

Statuses == {STATUS.DRAFT, STATUS.PROCESSING, STATUS.COMPLETED, STATUS.CANCELLED}

\* a status value that is not in the registry
UnknownStatus == "shipped"
AnyStatus == Statuses \cup {UnknownStatus} \cup ObjectPrototypeKeys

\* the graph with cancelled orders reopened as drafts
STATUS_TRANSITIONS_Reopen ==
  (STATUS.DRAFT :> <<STATUS.PROCESSING, STATUS.CANCELLED>>) @@
  (STATUS.PROCESSING :> <<STATUS.COMPLETED, STATUS.CANCELLED>>) @@
  (STATUS.COMPLETED :> <<>>) @@
  (STATUS.CANCELLED :> <<STATUS.DRAFT>>)

STATUS_TRANSITIONS ==
  (STATUS.DRAFT :> <<STATUS.PROCESSING, STATUS.CANCELLED>>) @@
  (STATUS.PROCESSING :> <<STATUS.COMPLETED, STATUS.CANCELLED>>) @@
  (STATUS.COMPLETED :> <<>>) @@
  (STATUS.CANCELLED :> <<>>)

STATUS_DESCRIPTIONS ==
  (STATUS.DRAFT :> "caogao") @@
  (STATUS.PROCESSING :> "chulizhong") @@
  (STATUS.COMPLETED :> "yiwancheng") @@
  (STATUS.CANCELLED :> "yiquxiao")

ROLE_PERMISSIONS ==
  ("admin" :> <<STATUS.DRAFT, STATUS.PROCESSING, STATUS.COMPLETED, STATUS.CANCELLED>>)

\* Array.prototype.includes
Includes(arr, x) == \E i \in 1..Len(arr) : arr[i] = x

\* obj[key] on a plain object: an own property, or else a property inherited
\* from Object.prototype, or else undefined
HasOwn(obj, key) == key \in DOMAIN obj
Inherits(obj, key) == key \notin DOMAIN obj /\ key \in ObjectPrototypeKeys

\* how a call ends: with a value, or with an exception
Returned(v) == [threw |-> FALSE, value |-> v]
Threw(e) == [threw |-> TRUE, value |-> e]

\* calling .includes on a value that has no such method
NotAFunction(what) == [name |-> "TypeError", message |-> what \o " is not a function"]

\* JavaScript values other than strings and booleans
Array(items) == [type |-> "array", items |-> items]
NativeFunction == [type |-> "function", items |-> <<>>]

\* String(Object), as a template literal renders the inherited value
NativeFunctionText == "function Object() { [native code] }"

\* a validator that accepts every pair
isValidTransition_Always(fromStatus, toStatus) == Returned(TRUE)

isValidTransition_NoFromCheck(fromStatus, toStatus) ==
  Returned(\E s \in DOMAIN STATUS_TRANSITIONS : Includes(STATUS_TRANSITIONS[s], toStatus))

isValidTransition(fromStatus, toStatus) ==
  IF HasOwn(STATUS_TRANSITIONS, fromStatus)
  THEN Returned(Includes(STATUS_TRANSITIONS[fromStatus], toStatus))
  ELSE IF Inherits(STATUS_TRANSITIONS, fromStatus)
  THEN Threw(NotAFunction("this.STATUS_TRANSITIONS[fromStatus].includes"))
  ELSE Returned(FALSE)

hasPermission(role, toStatus) ==
  IF HasOwn(ROLE_PERMISSIONS, role)
  THEN Returned(Includes(ROLE_PERMISSIONS[role], toStatus))
  ELSE IF Inherits(ROLE_PERMISSIONS, role)
  THEN Threw(NotAFunction("permissions.includes"))
  ELSE Returned(Includes(<<>>, toStatus))

getAvailableTransitions(currentStatus) ==
  IF HasOwn(STATUS_TRANSITIONS, currentStatus)
  THEN Array(STATUS_TRANSITIONS[currentStatus])
  ELSE IF Inherits(STATUS_TRANSITIONS, currentStatus)
  THEN NativeFunction
  ELSE Array(<<>>)

\* the description as text (for an inherited key the value is a function;
\* this is its text in a template literal)
getStatusDescription(status) ==
  IF HasOwn(STATUS_DESCRIPTIONS, status)
  THEN STATUS_DESCRIPTIONS[status]
  ELSE IF Inherits(STATUS_DESCRIPTIONS, status)
  THEN NativeFunctionText
  ELSE status

\* canCancelOrder with only draft cancellable
canCancelOrder_DraftOnly(order) ==
  IF order.status # STATUS.DRAFT
  THEN [canCancel |-> FALSE, reason |-> ""]
  ELSE [canCancel |-> TRUE, reason |-> "dingdan keyi quxiao"]

\* canCancelOrder with completed cancellable too
canCancelOrder_AlsoCompleted(order) ==
  IF order.status \notin {STATUS.DRAFT, STATUS.PROCESSING, STATUS.COMPLETED}
  THEN [canCancel |-> FALSE, reason |-> "wufa quxiao"]
  ELSE [canCancel |-> TRUE, reason |-> "dingdan keyi quxiao"]

\* canCancelOrder letting every order be cancelled
canCancelOrder_Always(order) == [canCancel |-> TRUE, reason |-> "dingdan keyi quxiao"]

canCancelOrder(order) ==
  LET cancellableStatuses == <<STATUS.DRAFT, STATUS.PROCESSING>>
  IN IF ~Includes(cancellableStatuses, order.status)
     THEN [canCancel |-> FALSE,
           reason |-> "dingdan zhuangtai wei " \o getStatusDescription(order.status)
                      \o ", wufa quxiao"]
     ELSE [canCancel |-> TRUE, reason |-> "dingdan keyi quxiao"]

----------------------------------------------------------------------------
(* The store *)

\* an order row as createOrder writes it, as far as the model keeps it: the
\* status and the remark (the body's remark, or null: no body here has one)
NewOrder == [status |-> "draft", remark |-> ""]

\* an update that only matches an order that is still a draft
OrderUpdateRow_DraftOnly(tbl, id, toStatus) ==
  IF id \in DOMAIN tbl /\ tbl[id].status = "draft"
  THEN [tbl EXCEPT ![id].status = toStatus] ELSE tbl

\* an update that writes the whole row from its defaults
OrderUpdateRow_WholeRow(tbl, id, toStatus) ==
  IF id \in DOMAIN tbl
  THEN [tbl EXCEPT ![id] = [NewOrder EXCEPT !.status = toStatus]] ELSE tbl

\* Order.update({status}, {where: {id}}): no row matches a missing id
OrderUpdateRow(tbl, id, toStatus) ==
  IF id \in DOMAIN tbl THEN [tbl EXCEPT ![id].status = toStatus] ELSE tbl

\* the rows of one kind a transaction wrote, applied at its commit
ApplyUpdates(tbl, updates) ==
  IF Len(updates) = 0 THEN tbl
  ELSE OrderUpdateRow(tbl, updates[1].id, updates[1].status)

\* order.update(updateData): only the attributes named in updateData are
\* written to the row
OrderEditRow(tbl, id, updateData) ==
  IF id \in DOMAIN tbl
  THEN [tbl EXCEPT ![id] =
          [k \in DOMAIN tbl[id] |->
             IF k \in DOMAIN updateData THEN updateData[k] ELSE tbl[id][k]]]
  ELSE tbl

\* a transaction's own writes: updates (status writes of transitionStatus),
\* edits (writes of updateOrder), flows and hist (inserted rows)
NoTx == [state |-> "none", updates |-> <<>>, edits |-> <<>>, flows |-> <<>>,
         hist |-> <<>>]
OpenTx == [NoTx EXCEPT !.state = "open"]

\* a transaction whose commit() has returned, in a handler that is still
\* running: its writes are in the tables
CommittedTx == [NoTx EXCEPT !.state = "committed"]

ReleaseLocks(r) == [o \in OrderIds |-> IF lock[o] = r THEN NoReq ELSE lock[o]]

\* the row of order id is not locked by another request's transaction
RowFree(r, id) == lock[id] \in {NoReq, r}

\* an id that no order has (ids are UUIDs: a caller cannot name an order
\* before it is created)
AbsentOrderId == 0

\* without the foreign keys
ReferencesOrder_Unchecked(tbl, id) == TRUE

\* the foreign key order_id of order_status_flows and of order_histories
\* (Order.hasMany / belongsTo, created by sequelize.sync): an insert is
\* refused unless the order exists
ReferencesOrder(tbl, id) == id \in DOMAIN tbl

----------------------------------------------------------------------------
(* Requests *)

NoArgs ==
  [orderId |-> 0, fromStatus |-> Undefined, toStatus |-> Undefined,
   operator |-> Undefined, role |-> Undefined, remark |-> Undefined,
   transaction |-> FALSE]

NoError == [name |-> "", message |-> ""]

\* new Error(message)
Error(message) == [name |-> "Error", message |-> message]

\* a statement of the store failed
PersistenceError == [name |-> "SequelizeDatabaseError", message |-> "persistence failure"]

\* pc: where the request is; route: "status", "cancel" or "direct"; status: the
\* body's target status; cur: the status the middleware read; remark: the
\* body's remark as the handler read it; args: the arguments of the call of
\* transitionStatus; nWrites: how many of its write statements that call has
\* executed; http: the response code (0: none); message: the response's
\* message, where the model keeps it
IdleReq ==
  [pc |-> "idle", route |-> "", id |-> 0, status |-> Undefined,
   cur |-> Undefined, role |-> Undefined, remark |-> Undefined,
   args |-> NoArgs, nWrites |-> 0, http |-> 0, message |-> "", err |-> NoError]

NoSnap == [outcome |-> "none", args |-> NoArgs, orders |-> <<>>, flows |-> <<>>,
           histories |-> <<>>]

\* how the direct call of request q ended
SnapAfter(q, outcome) ==
  IF q.route = "direct" THEN [snap EXCEPT !.outcome = outcome] ELSE snap

\* a finished request keeps its response code only
Respond(code) == [IdleReq EXCEPT !.pc = "done", !.http = code]

\* res.status(400).json(badRequest(message))
BadRequest(message) == [Respond(400) EXCEPT !.message = message]

Init ==
  /\ orders = <<>>
  /\ flows = <<>>
  /\ histories = <<>>
  /\ lock = [o \in OrderIds |-> NoReq]
  /\ req = [r \in Reqs |-> IdleReq]
  /\ tx = [r \in Reqs |-> NoTx]
  /\ started = 0
  /\ nCommitted = [o \in OrderIds |-> 0]
  /\ snap = NoSnap
  /\ calls = <<>>

\* createOrder, as far as the status subsystem sees it: a new draft order and
\* its "created" history record, committed together (no x-wx-openid header:
\* the operator is "system")
CreateOrder ==
  /\ Len(orders) < MaxOrders
  /\ LET id == Len(orders) + 1 IN
       /\ orders' = Append(orders, NewOrder)
       /\ histories' = Append(histories,
            [orderId |-> id, action |-> "created",
             description |-> "dingdan chuangjian", operator |-> "system",
             changes |-> [fromStatus |-> Undefined, toStatus |-> Undefined,
                          role |-> Undefined]])
  /\ UNCHANGED <<flows, lock, req, tx, started, nCommitted, snap, calls>>

----------------------------------------------------------------------------
(* Transition executor: OrderStatusService.transitionStatus *)

InvalidTransitionError(fromStatus, toStatus) ==
  Error("wuxiao de zhuangtai liuzhuan: " \o fromStatus \o " -> " \o toStatus)

ForbiddenError(role, toStatus) ==
  Error("yonghu juese " \o role \o " meiyou quanxian jiang zhuangtai biangeng wei "
        \o toStatus)

StatusChangeDescription(fromStatus, toStatus) ==
  "dingdan zhuangtai cong " \o getStatusDescription(fromStatus)
    \o " biangeng wei " \o getStatusDescription(toStatus)

\* the flow row with fromStatus and toStatus exchanged
FlowRecord_Swapped(a, createdAt) ==
  [orderId |-> a.orderId, fromStatus |-> a.toStatus, toStatus |-> a.fromStatus,
   operator |-> a.operator, remark |-> a.remark, createdAt |-> createdAt]

\* the row OrderStatusFlow.create inserts (its id, a random UUID, is left
\* out); createdAt is the time of the create() call
FlowRecord(a, createdAt) ==
  [orderId |-> a.orderId, fromStatus |-> a.fromStatus, toStatus |-> a.toStatus,
   operator |-> a.operator, remark |-> a.remark, createdAt |-> createdAt]

\* the rows of an order in a state of the flows table, as they were inserted
FlowsIn(tbl, o) == SelectSeq(tbl, LAMBDA f : f.orderId = o)

\* the createdAt of the latest flow record of an order (0: it has none)
LastCreatedAt(tbl, o) ==
  LET rows == FlowsIn(tbl, o) IN
  IF rows = <<>> THEN 0
  ELSE CHOOSE c \in {rows[i].createdAt : i \in 1..Len(rows)} :
         \A i \in 1..Len(rows) : rows[i].createdAt <= c

\* the clock at a create() call, read in the column's unit (createdAt is the
\* timestamp column Sequelize adds, a DATETIME of whole seconds) and counted
\* per order: the second of the order's latest record, or a later one
Now(tbl, o) ==
  IF LastCreatedAt(tbl, o) = 0 THEN {1}
  ELSE {LastCreatedAt(tbl, o), LastCreatedAt(tbl, o) + 1}

\* the history row with the operator left to the column's default
HistoryRecord_NoOperator(a) ==
  [orderId |-> a.orderId, action |-> "status_changed",
   description |-> StatusChangeDescription(a.fromStatus, a.toStatus),
   operator |-> "system",
   changes |-> [fromStatus |-> a.fromStatus, toStatus |-> a.toStatus,
                role |-> a.role]]

\* the row OrderHistory.create inserts (changes.timestamp is left out)
HistoryRecord(a) ==
  [orderId |-> a.orderId, action |-> "status_changed",
   description |-> StatusChangeDescription(a.fromStatus, a.toStatus),
   operator |-> a.operator,
   changes |-> [fromStatus |-> a.fromStatus, toStatus |-> a.toStatus,
                role |-> a.role]]

\* the success result of transitionStatus
SuccessResult(a) ==
  [success |-> TRUE, fromStatus |-> a.fromStatus, toStatus |-> a.toStatus,
   description |-> StatusChangeDescription(a.fromStatus, a.toStatus)]

\* a throw inside the caller's try block
Thrown(q, e) == [q EXCEPT !.pc = "catch", !.err = e]

\* transitionStatus checking the permission ahead of the legality
TS_Check_PermissionFirst(q) ==
  LET a == q.args
      legal == isValidTransition(a.fromStatus, a.toStatus)
      permitted == hasPermission(a.role, a.toStatus)
  IN
  IF permitted.threw THEN Thrown(q, permitted.value)
  ELSE IF ~permitted.value
  THEN Thrown(q, ForbiddenError(a.role, a.toStatus))
  ELSE IF legal.threw THEN Thrown(q, legal.value)
  ELSE IF ~legal.value
  THEN Thrown(q, InvalidTransitionError(a.fromStatus, a.toStatus))
  ELSE [q EXCEPT !.pc = "ts_update"]

\* transitionStatus checking the legality from the stored status
TS_Check_StoredStatus(q) ==
  LET a == q.args
      stored == IF a.orderId \in DOMAIN orders
                THEN orders[a.orderId].status ELSE a.fromStatus
      legal == isValidTransition(stored, a.toStatus)
      permitted == hasPermission(a.role, a.toStatus)
  IN
  IF legal.threw THEN Thrown(q, legal.value)
  ELSE IF ~legal.value
  THEN Thrown(q, InvalidTransitionError(stored, a.toStatus))
  ELSE IF permitted.threw THEN Thrown(q, permitted.value)
  ELSE IF ~permitted.value
  THEN Thrown(q, ForbiddenError(a.role, a.toStatus))
  ELSE [q EXCEPT !.pc = "ts_update"]

\* transitionStatus without its two checks
TS_Check_Unchecked(q) == [q EXCEPT !.pc = "ts_update"]

\* transitionStatus with the flow insert ahead of the status update
TS_Check_FlowFirst(q) == [q EXCEPT !.pc = "ts_flow"]

\* transitionStatus without its legality check
TS_Check_NoLegality(q) ==
  LET a == q.args
      permitted == hasPermission(a.role, a.toStatus)
  IN
  IF permitted.threw THEN Thrown(q, permitted.value)
  ELSE IF ~permitted.value
  THEN Thrown(q, ForbiddenError(a.role, a.toStatus))
  ELSE [q EXCEPT !.pc = "ts_update"]

\* transitionStatus comparing fromStatus with the stored status first
TS_Check_Stale(q) ==
  LET a == q.args
      legal == isValidTransition(a.fromStatus, a.toStatus)
      permitted == hasPermission(a.role, a.toStatus)
  IN
  IF a.orderId \in DOMAIN orders /\ orders[a.orderId].status # a.fromStatus
  THEN Thrown(q, Error("stale"))
  ELSE IF legal.threw THEN Thrown(q, legal.value)
  ELSE IF ~legal.value
  THEN Thrown(q, InvalidTransitionError(a.fromStatus, a.toStatus))
  ELSE IF permitted.threw THEN Thrown(q, permitted.value)
  ELSE IF ~permitted.value
  THEN Thrown(q, ForbiddenError(a.role, a.toStatus))
  ELSE [q EXCEPT !.pc = "ts_update"]

\* transitionStatus from its entry to its first await: the two checks, made
\* in the caller's step. q carries the arguments of the call.
TS_Check(q) ==
  LET a == q.args
      legal == isValidTransition(a.fromStatus, a.toStatus)
      permitted == hasPermission(a.role, a.toStatus)
  IN
  IF legal.threw THEN Thrown(q, legal.value)
  ELSE IF ~legal.value
  THEN Thrown(q, InvalidTransitionError(a.fromStatus, a.toStatus))
  ELSE IF permitted.threw THEN Thrown(q, permitted.value)
  ELSE IF ~permitted.value
  THEN Thrown(q, ForbiddenError(a.role, a.toStatus))
  ELSE [q EXCEPT !.pc = "ts_update"]

\* the transaction option each write statement passes on
UpdateTx_Dropped(a) == FALSE

UpdateTx(a) == a.transaction

FlowTx_Dropped(a) == FALSE

FlowTx(a) == a.transaction
HistoryTx_Dropped(a) == FALSE

HistoryTx(a) == a.transaction

\* await Order.update({status: toStatus}, {where: {id: orderId}, transaction})
TS_OrderUpdate(r) ==
  LET q == req[r]
      a == q.args
  IN
  /\ q.pc = "ts_update"
  /\ \/ /\ a.orderId \in DOMAIN orders => RowFree(r, a.orderId)
        /\ IF UpdateTx(a)
           THEN /\ tx' = [tx EXCEPT ![r].updates =
                            Append(@, [id |-> a.orderId, status |-> a.toStatus])]
                /\ lock' = IF a.orderId \in DOMAIN orders
                           THEN [lock EXCEPT ![a.orderId] = r] ELSE lock
                /\ UNCHANGED orders
           ELSE /\ orders' = OrderUpdateRow(orders, a.orderId, a.toStatus)
                /\ UNCHANGED <<tx, lock>>
        /\ req' = [req EXCEPT ![r] = [q EXCEPT !.pc = "ts_flow", !.nWrites = @ + 1]]
     \/ /\ req' = [req EXCEPT ![r] = Thrown(q, PersistenceError)]
        /\ UNCHANGED <<orders, tx, lock>>
  /\ UNCHANGED <<flows, histories, started, nCommitted, snap, calls>>

\* await OrderStatusFlow.create({...}, {transaction})
TS_FlowCreate(r) ==
  LET q == req[r]
      a == q.args
  IN
  /\ q.pc = "ts_flow"
  /\ \/ /\ ReferencesOrder(orders, a.orderId)
        /\ \E createdAt \in Now(flows, a.orderId) :
             IF FlowTx(a)
             THEN /\ tx' = [tx EXCEPT ![r].flows =
                              Append(@, FlowRecord(a, createdAt))]
                  /\ UNCHANGED flows
             ELSE /\ flows' = Append(flows, FlowRecord(a, createdAt))
                  /\ UNCHANGED tx
        /\ req' = [req EXCEPT ![r] = [q EXCEPT !.pc = "ts_history", !.nWrites = @ + 1]]
     \/ /\ req' = [req EXCEPT ![r] = Thrown(q, PersistenceError)]
        /\ UNCHANGED <<flows, tx>>
  /\ UNCHANGED <<orders, histories, lock, started, nCommitted, snap, calls>>

\* await OrderHistory.create({...}, {transaction}), then the success result:
\* the caller goes on to its commit, or, without a transaction, is done
TS_HistoryCreate(r) ==
  LET q == req[r]
      a == q.args
  IN
  /\ q.pc = "ts_history"
  /\ \/ /\ ReferencesOrder(orders, a.orderId)
        /\ IF HistoryTx(a)
           THEN /\ tx' = [tx EXCEPT ![r].hist = Append(@, HistoryRecord(a))]
                /\ UNCHANGED histories
           ELSE /\ histories' = Append(histories, HistoryRecord(a))
                /\ UNCHANGED tx
        /\ nCommitted' = IF a.transaction THEN nCommitted
                         ELSE [nCommitted EXCEPT ![a.orderId] = @ + 1]
        /\ snap' = IF a.transaction THEN snap ELSE SnapAfter(q, "returned")
        /\ req' = [req EXCEPT ![r] =
                     IF a.transaction
                     THEN [q EXCEPT !.pc = "commit", !.nWrites = @ + 1]
                     ELSE Respond(0)]
     \/ /\ req' = [req EXCEPT ![r] = Thrown(q, PersistenceError)]
        /\ UNCHANGED <<histories, tx, nCommitted, snap>>
  /\ UNCHANGED <<orders, flows, lock, started, calls>>

----------------------------------------------------------------------------
(* The caller's end of the transaction *)

\* await transaction.commit(), then the 200 response
Commit(r) ==
  LET q == req[r]
      t == tx[r]
  IN
  /\ q.pc = "commit"
  /\ \/ /\ orders' = ApplyUpdates(orders, t.updates)
        /\ flows' = flows \o t.flows
        /\ histories' = histories \o t.hist
        /\ nCommitted' = [nCommitted EXCEPT ![q.args.orderId] = @ + 1]
        /\ lock' = ReleaseLocks(r)
        /\ tx' = [tx EXCEPT ![r] = NoTx]
        /\ req' = [req EXCEPT ![r] = Respond(IF q.route = "direct" THEN 0 ELSE 200)]
        /\ snap' = SnapAfter(q, "returned")
     \/ /\ req' = [req EXCEPT ![r] = Thrown(q, PersistenceError)]
        /\ UNCHANGED <<orders, flows, histories, nCommitted, lock, tx, snap>>
  /\ UNCHANGED <<started, calls>>

\* the catch block: await transaction.rollback(), then the 400 response with
\* the error's message; or rollback() itself throws (as it may on a
\* transaction whose commit was attempted), the handler's promise rejects and
\* no response is written. Either way the store discards the transaction's
\* writes. A call made without a transaction has none to roll back.
Catch(r) ==
  LET q == req[r] IN
  /\ q.pc = "catch"
  /\ lock' = ReleaseLocks(r)
  /\ tx' = [tx EXCEPT ![r] = NoTx]
  /\ \/ req' = [req EXCEPT ![r] = Respond(IF q.route = "direct" THEN 0 ELSE 400)]
     \/ /\ q.args.transaction
        /\ req' = [req EXCEPT ![r] = Respond(0)]
  /\ snap' = SnapAfter(q, "threw")
  /\ UNCHANGED <<orders, flows, histories, started, nCommitted, calls>>

----------------------------------------------------------------------------
(* Boundary: the routes and StatusValidationMiddleware *)

\* PUT /orders/:id/status arrives. validateRequest(orderStatusSchema) answers
\* 400 for a status outside the enumeration and strips every body field
\* other than status and remark (so a role or operator in the body is gone).
ReceiveStatus(r) ==
  /\ req[r].pc \in {"idle", "done"}
  /\ started < MaxRequests
  /\ started' = started + 1
  /\ \E id \in OrderIds, status \in AnyStatus :
       req' = [req EXCEPT ![r] =
                 IF status \in Statuses
                 THEN [IdleReq EXCEPT !.pc = "mw", !.route = "status",
                                      !.id = id, !.status = status]
                 ELSE Respond(400)]
  /\ UNCHANGED <<orders, flows, histories, lock, tx, nCommitted, snap, calls>>

\* PUT /orders/:id/cancel arrives; its body is not validated
ReceiveCancel(r) ==
  /\ req[r].pc \in {"idle", "done"}
  /\ started < MaxRequests
  /\ started' = started + 1
  /\ \E id \in OrderIds, role \in BodyRoles :
       req' = [req EXCEPT ![r] =
                 [IdleReq EXCEPT !.pc = "mw", !.route = "cancel", !.id = id,
                                 !.role = role]]
  /\ UNCHANGED <<orders, flows, histories, lock, tx, nCommitted, snap, calls>>

\* validateStatusTransition: reads the order outside any transaction
validateStatusTransition(r) ==
  LET q == req[r]
      role == "admin"   \* body.role was stripped: the default applies
  IN
  /\ q.pc = "mw" /\ q.route = "status"
  /\ \/ /\ q.id \notin DOMAIN orders
        /\ req' = [req EXCEPT ![r] = Respond(404)]
     \/ /\ q.id \in DOMAIN orders
        /\ LET order == orders[q.id]
               legal == isValidTransition(order.status, q.status)
               permitted == hasPermission(role, q.status)
           IN
           req' = [req EXCEPT ![r] =
                     IF legal.threw THEN Respond(500)
                     ELSE IF ~legal.value THEN Respond(400)
                     ELSE IF permitted.threw THEN Respond(500)
                     ELSE IF ~permitted.value THEN Respond(403)
                     ELSE [q EXCEPT !.pc = "handler", !.cur = order.status,
                                    !.role = role]]
     \/ \* Order.findByPk throws
        req' = [req EXCEPT ![r] = Respond(500)]
  /\ UNCHANGED <<orders, flows, histories, lock, tx, started, nCommitted, snap, calls>>

\* validateOrderCancellation
validateOrderCancellation(r) ==
  LET q == req[r]
      role == IF q.role = Undefined THEN "admin" ELSE q.role
  IN
  /\ q.pc = "mw" /\ q.route = "cancel"
  /\ \/ /\ q.id \notin DOMAIN orders
        /\ req' = [req EXCEPT ![r] = Respond(404)]
     \/ /\ q.id \in DOMAIN orders
        /\ LET order == orders[q.id]
               permitted == hasPermission(role, STATUS.CANCELLED)
           IN
           req' = [req EXCEPT ![r] =
                     IF ~canCancelOrder(order).canCancel
                     THEN BadRequest(canCancelOrder(order).reason)
                     ELSE IF permitted.threw THEN Respond(500)
                     ELSE IF ~permitted.value THEN Respond(403)
                     ELSE [q EXCEPT !.pc = "handler", !.cur = order.status,
                                    !.role = role]]
     \/ req' = [req EXCEPT ![r] = Respond(500)]
  /\ UNCHANGED <<orders, flows, histories, lock, tx, started, nCommitted, snap, calls>>

----------------------------------------------------------------------------
(* Handlers: orderController *)

\* req.headers["x-wx-openid"] || "unknown"
OperatorOf(openid) == IF openid \in {Undefined, ""} THEN "unknown" ELSE openid

\* the default value "" of transitionStatus's remark parameter
RemarkParam(remark) == IF remark = Undefined THEN "" ELSE remark

\* the remark itself, whatever it is
CancelRemark_AsSent(remark) == remark

\* remark || "订单取消"
CancelRemark(remark) == IF remark \in {Undefined, ""} THEN "dingdan quxiao" ELSE remark

\* updateOrderStatus from its transaction to the first await of
\* transitionStatus. The remark and the x-wx-openid header of the request
\* are first read here.
updateOrderStatus(r) ==
  LET q == req[r] IN
  /\ q.pc = "handler" /\ q.route = "status"
  /\ \E sender \in Senders :
       req' = [req EXCEPT ![r] =
                 TS_Check([q EXCEPT !.remark = sender.remark, !.args =
                             [orderId |-> q.id,
                              fromStatus |-> q.cur,
                              toStatus |-> q.status,
                              operator |-> OperatorOf(sender.openid),
                              role |-> "admin",
                              remark |-> RemarkParam(sender.remark),
                              transaction |-> TRUE]])]
  /\ tx' = [tx EXCEPT ![r] = OpenTx]
  /\ UNCHANGED <<orders, flows, histories, lock, started, nCommitted, snap, calls>>

\* cancelOrder from its transaction to the first await of transitionStatus
cancelOrder(r) ==
  LET q == req[r] IN
  /\ q.pc = "handler" /\ q.route = "cancel"
  /\ \E sender \in CancelSenders :
       req' = [req EXCEPT ![r] =
                 TS_Check([q EXCEPT !.remark = sender.remark, !.args =
                             [orderId |-> q.id,
                              fromStatus |-> q.cur,
                              toStatus |-> STATUS.CANCELLED,
                              operator |-> OperatorOf(sender.openid),
                              role |-> "admin",
                              remark |-> CancelRemark(sender.remark),
                              transaction |-> TRUE]])]
  /\ tx' = [tx EXCEPT ![r] = OpenTx]
  /\ UNCHANGED <<orders, flows, histories, lock, started, nCommitted, snap, calls>>

----------------------------------------------------------------------------
(* Views of the committed tables *)

FlowsOf(o) == FlowsIn(flows, o)

\* the sequences that hold the elements of rows, each once, in some order
Orderings(rows) ==
  LET n == Len(rows) IN
  {[i \in 1..n |-> rows[p[i]]] :
     p \in {f \in [1..n -> 1..n] : \A i, j \in 1..n : f[i] = f[j] => i = j}}

\* order: [["createdAt", "ASC"]]
CreatedAtAscending(s) ==
  \A i \in 1..Len(s) : \A j \in 1..Len(s) :
    i < j => s[i].createdAt <= s[j].createdAt

\* OrderStatusFlow.findAll({where: {orderId}, order: [["createdAt", "ASC"]]}):
\* the results the query may give. Rows of equal createdAt come in whatever
\* order the database returns them.
FindAllFlows(tbl, orderId) ==
  {s \in Orderings(FlowsIn(tbl, orderId)) : CreatedAtAscending(s)}

\* flows.map(flow => ({...})) (the id is left out)
FlowView(flow) ==
  [fromStatus |-> flow.fromStatus,
   toStatus |-> flow.toStatus,
   fromStatusDesc |-> getStatusDescription(flow.fromStatus),
   toStatusDesc |-> getStatusDescription(flow.toStatus),
   operator |-> flow.operator,
   remark |-> flow.remark,
   createdAt |-> flow.createdAt]

\* the values getStatusFlowHistory may return over a state of the flows table
FlowHistoriesIn(tbl, orderId) ==
  {[i \in 1..Len(s) |-> FlowView(s[i])] : s \in FindAllFlows(tbl, orderId)}

\* the values getStatusFlowHistory(orderId) may return now
getStatusFlowHistory(orderId) == FlowHistoriesIn(flows, orderId)

\* the status_changed records of an order in order_histories
StatusChangesIn(tbl, o) ==
  SelectSeq(tbl, LAMBDA h : h.orderId = o /\ h.action = "status_changed")
StatusChangesOf(o) == StatusChangesIn(histories, o)

----------------------------------------------------------------------------
(* The other order routes: PUT /orders/:id (updateOrder) and                 *)
(* GET /orders/:id (getOrderById)                                            *)

\* bodies of PUT /orders/:id as sent: a remark, and possibly a status
UpdateBodies ==
  {[remark |-> "edited", status |-> Undefined],
   [remark |-> "edited", status |-> STATUS.COMPLETED],
   [remark |-> "", status |-> STATUS.COMPLETED]}

\* orderUpdateSchema: a body with neither a remark nor items is refused
\* (no body here has items)
UpdateBodyValid(body) == body.remark # ""

\* validate(..., {stripUnknown: true}): what is left of the body is the keys
\* of the schema; a status in the body is gone
StripUnknown(body) == [remark |-> body.remark]

\* PUT /orders/:id arrives: validateRequest(orderUpdateSchema)
ReceiveUpdate(r) ==
  /\ req[r].pc \in {"idle", "done"}
  /\ started < MaxRequests
  /\ started' = started + 1
  /\ \E id \in OrderIds, body \in UpdateBodies :
       req' = [req EXCEPT ![r] =
                 IF UpdateBodyValid(body)
                 THEN [IdleReq EXCEPT !.pc = "uo_find", !.route = "update",
                                      !.id = id,
                                      !.remark = StripUnknown(body).remark]
                 ELSE Respond(400)]
  /\ UNCHANGED <<orders, flows, histories, lock, tx, nCommitted, snap, calls>>

\* the whole row, as instance.save() without a list of fields would write it
UpdateData_WholeRow(remark, order) ==
  [remark |-> remark, status |-> order.status]

\* updateData: the remark, if the body has one that differs (totalAmount,
\* which the model does not keep, is always part of it)
UpdateData(remark, order) ==
  [k \in IF remark # Undefined /\ remark # order.remark
         THEN {"remark"} ELSE {} |-> remark]

\* updateOrder from its transaction to Order.findByPk and the checks on what
\* it found: 404 for no order, 400 for an order that is not a draft (each
\* after transaction.rollback())
updateOrder(r) ==
  LET q == req[r] IN
  /\ q.pc = "uo_find"
  /\ \/ /\ q.id \notin DOMAIN orders
        /\ req' = [req EXCEPT ![r] = Respond(404)]
        /\ UNCHANGED tx
     \/ /\ q.id \in DOMAIN orders
        /\ orders[q.id].status # "draft"
        /\ req' = [req EXCEPT ![r] =
                    BadRequest("zhiyou caogao zhuangtai de dingdan keyi xiugai")]
        /\ UNCHANGED tx
     \/ /\ q.id \in DOMAIN orders
        /\ orders[q.id].status = "draft"
        /\ req' = [req EXCEPT ![r] = [q EXCEPT !.pc = "uo_update",
                                               !.cur = orders[q.id].status]]
        /\ tx' = [tx EXCEPT ![r] = OpenTx]
     \/ \* Order.findByPk throws
        /\ req' = [req EXCEPT ![r] = [q EXCEPT !.pc = "uo_catch"]]
        /\ tx' = [tx EXCEPT ![r] = OpenTx]
  /\ UNCHANGED <<orders, flows, histories, lock, started, nCommitted, snap, calls>>

\* await order.update(updateData, {transaction}). The order instance is the
\* one findByPk read: its status is q.cur; its remark is the row's, which no
\* other connection edits meanwhile.
UO_OrderUpdate(r) ==
  LET q == req[r] IN
  /\ q.pc = "uo_update"
  /\ \/ /\ RowFree(r, q.id)
        /\ tx' = [tx EXCEPT ![r].edits =
                    Append(@, [id |-> q.id,
                               data |-> UpdateData(q.remark,
                                          [status |-> q.cur,
                                           remark |-> orders[q.id].remark])])]
        /\ lock' = [lock EXCEPT ![q.id] = r]
        /\ req' = [req EXCEPT ![r] = [q EXCEPT !.pc = "uo_history"]]
     \/ /\ req' = [req EXCEPT ![r] = [q EXCEPT !.pc = "uo_catch"]]
        /\ UNCHANGED <<tx, lock>>
  /\ UNCHANGED <<orders, flows, histories, started, nCommitted, snap, calls>>

\* await OrderHistory.create({action: "order_updated", ...}, {transaction})
UO_HistoryCreate(r) ==
  LET q == req[r] IN
  /\ q.pc = "uo_history"
  /\ \/ /\ ReferencesOrder(orders, q.id)
        /\ tx' = [tx EXCEPT ![r].hist =
                    Append(@, [orderId |-> q.id, action |-> "order_updated",
                               description |-> "dingdan xinxi gengxin",
                               operator |-> "unknown",
                               changes |-> [fromStatus |-> Undefined,
                                            toStatus |-> Undefined,
                                            role |-> Undefined]])]
        /\ req' = [req EXCEPT ![r] = [q EXCEPT !.pc = "uo_commit"]]
     \/ /\ req' = [req EXCEPT ![r] = [q EXCEPT !.pc = "uo_catch"]]
        /\ UNCHANGED tx
  /\ UNCHANGED <<orders, flows, histories, lock, started, nCommitted, snap, calls>>

\* await transaction.commit(), then the 200 response
UO_Commit(r) ==
  LET q == req[r]
      t == tx[r]
  IN
  /\ q.pc = "uo_commit"
  /\ \/ /\ orders' = OrderEditRow(orders, t.edits[1].id, t.edits[1].data)
        /\ histories' = histories \o t.hist
        /\ lock' = ReleaseLocks(r)
        /\ tx' = [tx EXCEPT ![r] = NoTx]
        /\ req' = [req EXCEPT ![r] = Respond(200)]
     \/ /\ req' = [req EXCEPT ![r] = [q EXCEPT !.pc = "uo_catch"]]
        /\ UNCHANGED <<orders, histories, lock, tx>>
  /\ UNCHANGED <<flows, started, nCommitted, snap, calls>>

\* updateOrder's catch block: await transaction.rollback(), then the 500
\* response; or rollback() itself throws and no response is written
UO_Catch(r) ==
  LET q == req[r] IN
  /\ q.pc = "uo_catch"
  /\ lock' = ReleaseLocks(r)
  /\ tx' = [tx EXCEPT ![r] = NoTx]
  /\ \/ req' = [req EXCEPT ![r] = Respond(500)]
     \/ req' = [req EXCEPT ![r] = Respond(0)]
  /\ UNCHANGED <<orders, flows, histories, started, nCommitted, snap, calls>>

\* GET /orders/:id arrives (no validation)
ReceiveGet(r) ==
  /\ req[r].pc \in {"idle", "done"}
  /\ started < MaxRequests
  /\ started' = started + 1
  /\ \E id \in OrderIds :
       req' = [req EXCEPT ![r] =
                 [IdleReq EXCEPT !.pc = "get_find", !.route = "get", !.id = id]]
  /\ UNCHANGED <<orders, flows, histories, lock, tx, nCommitted, snap, calls>>

\* getOrderById up to its statusInfo: Order.findByPk outside any
\* transaction, 404 for no order; the registry is asked about the status
\* read (a throw there is answered by the catch block, 500)
getOrderById(r) ==
  LET q == req[r] IN
  /\ q.pc = "get_find"
  /\ \/ /\ q.id \notin DOMAIN orders
        /\ req' = [req EXCEPT ![r] = Respond(404)]
     \/ /\ q.id \in DOMAIN orders
        /\ LET order == orders[q.id]
               availableTransitions == getAvailableTransitions(order.status)
           IN
           req' = [req EXCEPT ![r] =
                     IF availableTransitions.type # "array" THEN Respond(500)
                     ELSE [q EXCEPT !.pc = "get_flows", !.cur = order.status]]
     \/ \* Order.findByPk throws
        req' = [req EXCEPT ![r] = Respond(500)]
  /\ UNCHANGED <<orders, flows, histories, lock, tx, started, nCommitted, snap, calls>>

\* getOrderById from getStatusFlowHistory(id) to the 200 response with the
\* order, its statusInfo and its statusFlows; a throw of the query is
\* answered by the catch block, 500
GO_FlowHistory(r) ==
  LET q == req[r] IN
  /\ q.pc = "get_flows"
  /\ \/ \E statusFlows \in getStatusFlowHistory(q.id) :
          req' = [req EXCEPT ![r] = Respond(200)]
     \/ req' = [req EXCEPT ![r] = Respond(500)]
  /\ UNCHANGED <<orders, flows, histories, lock, tx, started, nCommitted, snap, calls>>

----------------------------------------------------------------------------
(* A caller inside the process that calls transitionStatus directly, with    *)
(* any arguments, on an existing order or an id no order has, with a         *)
(* transaction of its own                                                    *)
(* (committed on success, rolled back on a throw, as the handlers do) or     *)
(* without one (transaction = null, the parameter's default).                *)

DirectRoles == {"admin", "guest"}
DirectRemarks == {"note"}

\* the (fromStatus, toStatus) arguments tried: every edge of the graph, and of
\* the other pairs a self-loop, two reverse edges, a skipped step and a target
\* outside the enumeration
DirectPairs ==
  {<<STATUS.DRAFT, STATUS.PROCESSING>>, <<STATUS.DRAFT, STATUS.CANCELLED>>,
   <<STATUS.PROCESSING, STATUS.COMPLETED>>, <<STATUS.PROCESSING, STATUS.CANCELLED>>,
   <<STATUS.DRAFT, STATUS.DRAFT>>, <<STATUS.PROCESSING, STATUS.DRAFT>>,
   <<STATUS.COMPLETED, STATUS.PROCESSING>>, <<STATUS.DRAFT, STATUS.COMPLETED>>,
   <<STATUS.DRAFT, UnknownStatus>>}

DirectCall(r) ==
  /\ req[r].pc \in {"idle", "done"}
  /\ started < MaxRequests
  /\ started' = started + 1
  /\ \E id \in DOMAIN orders \cup {AbsentOrderId}, pair \in DirectPairs,
        role \in DirectRoles, remark \in DirectRemarks, transaction \in BOOLEAN :
     LET fromStatus == pair[1]
         toStatus == pair[2]
     IN
       /\ req' = [req EXCEPT ![r] =
                    TS_Check([IdleReq EXCEPT
                                !.route = "direct", !.id = id,
                                !.args = [orderId |-> id,
                                          fromStatus |-> fromStatus,
                                          toStatus |-> toStatus,
                                          operator |-> "svc",
                                          role |-> role,
                                          remark |-> remark,
                                          transaction |-> transaction]])]
       /\ tx' = [tx EXCEPT ![r] = IF transaction THEN OpenTx ELSE NoTx]
       /\ snap' = [outcome |-> "running",
                   args |-> [orderId |-> id, fromStatus |-> fromStatus,
                             toStatus |-> toStatus, operator |-> "svc",
                             role |-> role, remark |-> remark,
                             transaction |-> transaction],
                   orders |-> orders, flows |-> flows, histories |-> histories]
  /\ UNCHANGED <<orders, flows, histories, lock, nCommitted, calls>>

----------------------------------------------------------------------------
(* Specifications *)

\* the HTTP path: every transition goes through a route
Next ==
  \/ CreateOrder
  \/ \E r \in Reqs :
       \/ ReceiveStatus(r)
       \/ ReceiveCancel(r)
       \/ validateStatusTransition(r)
       \/ validateOrderCancellation(r)
       \/ updateOrderStatus(r)
       \/ cancelOrder(r)
       \/ TS_OrderUpdate(r)
       \/ TS_FlowCreate(r)
       \/ TS_HistoryCreate(r)
       \/ Commit(r)
       \/ Catch(r)

Spec == Init /\ [][Next]_vars

\* the executor called directly, one call at a time
ExecReqs == {"r1"}

NextExec ==
  \/ CreateOrder
  \/ \E r \in ExecReqs :
       \/ DirectCall(r)
       \/ TS_OrderUpdate(r)
       \/ TS_FlowCreate(r)
       \/ TS_HistoryCreate(r)
       \/ Commit(r)
       \/ Catch(r)

SpecExec == Init /\ [][NextExec]_vars

\* the order routes together: transitions on one connection, edits and
\* reads of orders on another
EditReqs == {"r2"}

NextEdit ==
  \/ CreateOrder
  \/ \E r \in ExecReqs :
       \/ ReceiveStatus(r)
       \/ ReceiveCancel(r)
       \/ validateStatusTransition(r)
       \/ validateOrderCancellation(r)
       \/ updateOrderStatus(r)
       \/ cancelOrder(r)
       \/ TS_OrderUpdate(r)
       \/ TS_FlowCreate(r)
       \/ TS_HistoryCreate(r)
       \/ Commit(r)
       \/ Catch(r)
  \/ \E r \in EditReqs :
       \/ ReceiveUpdate(r)
       \/ updateOrder(r)
       \/ UO_OrderUpdate(r)
       \/ UO_HistoryCreate(r)
       \/ UO_Commit(r)
       \/ UO_Catch(r)
       \/ ReceiveGet(r)
       \/ getOrderById(r)
       \/ GO_FlowHistory(r)

SpecEdit == Init /\ [][NextEdit]_vars

----------------------------------------------------------------------------
(* The registry's and validator's functions, called with any arguments *)

RegRoles == {"admin", "guest", Undefined} \cup ObjectPrototypeKeys

Called(c) ==
  /\ Len(calls) < MaxCalls
  /\ calls' = Append(calls, c)
  /\ UNCHANGED <<orders, flows, histories, lock, req, tx, started, nCommitted, snap>>

Call_isValidTransition ==
  \E fromStatus \in AnyStatus, toStatus \in AnyStatus :
    Called([fn |-> "isValidTransition", a |-> fromStatus, b |-> toStatus,
            out |-> isValidTransition(fromStatus, toStatus)])

Call_hasPermission ==
  \E role \in RegRoles, toStatus \in AnyStatus :
    Called([fn |-> "hasPermission", a |-> role, b |-> toStatus,
            out |-> hasPermission(role, toStatus)])

Call_getAvailableTransitions ==
  \E currentStatus \in AnyStatus :
    Called([fn |-> "getAvailableTransitions", a |-> currentStatus, b |-> Undefined,
            out |-> getAvailableTransitions(currentStatus)])

Call_getStatusDescription ==
  \E status \in AnyStatus :
    Called([fn |-> "getStatusDescription", a |-> status, b |-> Undefined,
            out |-> getStatusDescription(status)])

Call_canCancelOrder ==
  \E status \in AnyStatus \cup {Undefined} :
    Called([fn |-> "canCancelOrder", a |-> status, b |-> Undefined,
            out |-> canCancelOrder([status |-> status])])

\* the order whose history the reader's caller asks for (orders are alike:
\* one stands for all)
ReadOrderIds == {1}

\* how many rows were committed so far (every committed write of these
\* specifications that a reader can see inserts a row)
CommittedRows == Len(orders) + Len(flows) + Len(histories)

\* a caller of the reader: b keeps the rows of the order at the call, at the
\* number of rows committed by then
Call_getStatusFlowHistory ==
  \E orderId \in ReadOrderIds :
    \E out \in getStatusFlowHistory(orderId) :
      Called([fn |-> "getStatusFlowHistory", a |-> orderId,
              b |-> FlowsOf(orderId), at |-> CommittedRows, out |-> out])

NextReg ==
  \/ Call_isValidTransition
  \/ Call_hasPermission
  \/ Call_getAvailableTransitions
  \/ Call_getStatusDescription
  \/ Call_canCancelOrder

SpecReg == Init /\ [][NextReg]_vars

\* the reader called at any time while transitions are made over HTTP, one
\* at a time
NextRead ==
  \/ CreateOrder
  \/ \E r \in ExecReqs :
       \/ ReceiveStatus(r)
       \/ ReceiveCancel(r)
       \/ validateStatusTransition(r)
       \/ validateOrderCancellation(r)
       \/ updateOrderStatus(r)
       \/ cancelOrder(r)
       \/ TS_OrderUpdate(r)
       \/ TS_FlowCreate(r)
       \/ TS_HistoryCreate(r)
       \/ Commit(r)
       \/ Catch(r)
  \/ Call_getStatusFlowHistory

SpecRead == Init /\ [][NextRead]_vars

\* the calls of the registry's and validator's functions that the program
\* makes on a stored order: getOrderById for its statusInfo, the two
\* middleware functions for their checks (role admin, target cancelled)
CallsOn(order) ==
  {[fn |-> "getStatusDescription", a |-> order.status, b |-> Undefined,
    at |-> CommittedRows, out |-> getStatusDescription(order.status)],
   [fn |-> "getAvailableTransitions", a |-> order.status, b |-> Undefined,
    at |-> CommittedRows, out |-> getAvailableTransitions(order.status)],
   [fn |-> "canCancelOrder", a |-> order.status, b |-> Undefined,
    at |-> CommittedRows, out |-> canCancelOrder(order)],
   [fn |-> "isValidTransition", a |-> order.status, b |-> STATUS.CANCELLED,
    at |-> CommittedRows,
    out |-> isValidTransition(order.status, STATUS.CANCELLED)],
   [fn |-> "hasPermission", a |-> "admin", b |-> STATUS.CANCELLED,
    at |-> CommittedRows, out |-> hasPermission("admin", STATUS.CANCELLED)]}

Call_onStoredOrder ==
  \E o \in ReadOrderIds \cap DOMAIN orders :
    \E c \in CallsOn(orders[o]) : Called(c)

\* the six read-only operations called at any time while transitions are
\* made over HTTP
NextPure ==
  \/ NextRead
  \/ Call_onStoredOrder

SpecPure == Init /\ [][NextPure]_vars

\* the two ways into transitionStatus, one request at a time: through the
\* routes, or called directly
NextBoth ==
  \/ CreateOrder
  \/ \E r \in ExecReqs :
       \/ ReceiveStatus(r)
       \/ ReceiveCancel(r)
       \/ validateStatusTransition(r)
       \/ validateOrderCancellation(r)
       \/ updateOrderStatus(r)
       \/ cancelOrder(r)
       \/ DirectCall(r)
       \/ TS_OrderUpdate(r)
       \/ TS_FlowCreate(r)
       \/ TS_HistoryCreate(r)
       \/ Commit(r)
       \/ Catch(r)

SpecBoth == Init /\ [][NextBoth]_vars

----------------------------------------------------------------------------
(* POST /orders (createOrder), statement by statement. The customers, the    *)
(* products and the order items are not kept: what a lookup finds is an      *)
(* input of the step that makes it.                                          *)

\* the "created" record of order id (no x-wx-openid header)
CreatedRecord(id) ==
  [orderId |-> id, action |-> "created",
   description |-> "dingdan chuangjian", operator |-> "system",
   changes |-> [fromStatus |-> Undefined, toStatus |-> Undefined,
                role |-> Undefined]]

\* the createOrder calls that have not answered yet
Creating == {r \in Reqs : req[r].route = "create" /\ req[r].pc # "done"}

\* POST /orders arrives: validateRequest(orderSchema) answers 400 for a body
\* without a customerId or without items
ReceiveCreate(r) ==
  /\ req[r].pc \in {"idle", "done"}
  /\ started < MaxRequests
  /\ Len(orders) + Cardinality(Creating) < MaxOrders
  /\ started' = started + 1
  /\ \E valid \in BOOLEAN :
       req' = [req EXCEPT ![r] =
                 IF valid
                 THEN [IdleReq EXCEPT !.pc = "co_begin", !.route = "create"]
                 ELSE Respond(400)]
  /\ UNCHANGED <<orders, flows, histories, lock, tx, nCommitted, snap, calls>>

\* const transaction = await Order.sequelize.transaction()
createOrder(r) ==
  LET q == req[r] IN
  /\ q.pc = "co_begin"
  /\ tx' = [tx EXCEPT ![r] = OpenTx]
  /\ req' = [req EXCEPT ![r] = [q EXCEPT !.pc = "co_customer"]]
  /\ UNCHANGED <<orders, flows, histories, lock, started, nCommitted, snap, calls>>

\* await Customer.findByPk(customerId): no customer is answered 404 after
\* transaction.rollback(); then await Order.create({...}, {transaction})
CO_OrderCreate(r) ==
  LET q == req[r] IN
  /\ q.pc = "co_customer"
  /\ \/ /\ tx' = [tx EXCEPT ![r] = NoTx]
        /\ req' = [req EXCEPT ![r] = Respond(404)]
     \/ /\ tx' = tx
        /\ req' = [req EXCEPT ![r] = [q EXCEPT !.pc = "co_items"]]
     \/ \* Customer.findByPk or Order.create throws
        /\ tx' = tx
        /\ req' = [req EXCEPT ![r] = [q EXCEPT !.pc = "co_catch"]]
  /\ UNCHANGED <<orders, flows, histories, lock, started, nCommitted, snap, calls>>

\* the loop over the items: await Product.findByPk(productId), no product is
\* answered 404 after transaction.rollback(); await OrderItem.create
CO_Items(r) ==
  LET q == req[r] IN
  /\ q.pc = "co_items"
  /\ \/ /\ tx' = [tx EXCEPT ![r] = NoTx]
        /\ req' = [req EXCEPT ![r] = Respond(404)]
     \/ /\ tx' = tx
        /\ req' = [req EXCEPT ![r] = [q EXCEPT !.pc = "co_history"]]
     \/ /\ tx' = tx
        /\ req' = [req EXCEPT ![r] = [q EXCEPT !.pc = "co_catch"]]
  /\ UNCHANGED <<orders, flows, histories, lock, started, nCommitted, snap, calls>>

\* await order.update({totalAmount}, {transaction}), then
\* await OrderHistory.create({action: "created", ...}, {transaction})
CO_HistoryCreate(r) ==
  LET q == req[r] IN
  /\ q.pc = "co_history"
  /\ \/ req' = [req EXCEPT ![r] = [q EXCEPT !.pc = "co_commit"]]
     \/ req' = [req EXCEPT ![r] = [q EXCEPT !.pc = "co_catch"]]
  /\ UNCHANGED <<orders, flows, histories, lock, tx, started, nCommitted, snap, calls>>

\* await transaction.commit(): the order and its "created" record appear
CO_Commit(r) ==
  LET q == req[r]
      id == Len(orders) + 1
  IN
  /\ q.pc = "co_commit"
  /\ \/ /\ orders' = Append(orders, NewOrder)
        /\ histories' = Append(histories, CreatedRecord(id))
        /\ tx' = [tx EXCEPT ![r] = CommittedTx]
        /\ req' = [req EXCEPT ![r] = [q EXCEPT !.pc = "co_result", !.id = id]]
     \/ /\ req' = [req EXCEPT ![r] = [q EXCEPT !.pc = "co_catch"]]
        /\ UNCHANGED <<orders, histories, tx>>
  /\ UNCHANGED <<flows, lock, started, nCommitted, snap, calls>>

\* after the commit, still inside the try block: await Order.findByPk(order.id,
\* {include: ...}), then the 201 response; a throw of the query goes to the
\* catch block
CO_Result(r) ==
  LET q == req[r] IN
  /\ q.pc = "co_result"
  /\ \/ /\ tx' = [tx EXCEPT ![r] = NoTx]
        /\ req' = [req EXCEPT ![r] = Respond(201)]
     \/ /\ tx' = tx
        /\ req' = [req EXCEPT ![r] = [q EXCEPT !.pc = "co_catch"]]
  /\ UNCHANGED <<orders, flows, histories, lock, started, nCommitted, snap, calls>>

\* createOrder's catch block: await transaction.rollback(), then the 500
\* response; or rollback() itself throws and no response is written. What a
\* commit has written stays.
CO_Catch(r) ==
  LET q == req[r] IN
  /\ q.pc = "co_catch"
  /\ tx' = [tx EXCEPT ![r] = NoTx]
  /\ \/ req' = [req EXCEPT ![r] = Respond(500)]
     \/ req' = [req EXCEPT ![r] = Respond(0)]
  /\ UNCHANGED <<orders, flows, histories, lock, started, nCommitted, snap, calls>>

\* the steps of the handlers of request r, once the request has arrived
HandlerStep(r) ==
  \/ createOrder(r)
  \/ CO_OrderCreate(r)
  \/ CO_Items(r)
  \/ CO_HistoryCreate(r)
  \/ CO_Commit(r)
  \/ CO_Result(r)
  \/ CO_Catch(r)
  \/ updateOrder(r)
  \/ UO_OrderUpdate(r)
  \/ UO_HistoryCreate(r)
  \/ UO_Commit(r)
  \/ UO_Catch(r)
  \/ validateStatusTransition(r)
  \/ validateOrderCancellation(r)
  \/ updateOrderStatus(r)
  \/ cancelOrder(r)
  \/ TS_OrderUpdate(r)
  \/ TS_FlowCreate(r)
  \/ TS_HistoryCreate(r)
  \/ Commit(r)
  \/ Catch(r)

\* the four handlers that open a transaction, on two connections
NextTx ==
  \E r \in Reqs :
    \/ ReceiveCreate(r)
    \/ ReceiveUpdate(r)
    \/ ReceiveStatus(r)
    \/ ReceiveCancel(r)
    \/ HandlerStep(r)

\* Node runs every continuation that is ready, and every statement of the
\* store returns or fails (a lock wait ends in a timeout): a handler that
\* can take its next step takes it
SpecTx == Init /\ [][NextTx]_vars /\ \A r \in Reqs : WF_vars(HandlerStep(r))

----------------------------------------------------------------------------
(* Claims *)

\* the transition graph as the specification's data model draws it
SpecGraph ==
  {<<"draft", "processing">>, <<"draft", "cancelled">>,
   <<"processing", "completed">>, <<"processing", "cancelled">>}

SpecStatuses == {"draft", "processing", "completed", "cancelled"}

Terminal == {"completed", "cancelled"}

\* C1: for each of the 16 pairs of statuses, isValidTransition(from, to) is
\* true exactly when (from, to) is an edge of the graph draft -> {processing,
\* cancelled}, processing -> {completed, cancelled}; self-loops and reverse
\* edges are false.
C1_ValidIffEdge ==
  \A i \in 1..Len(calls) :
    LET c == calls[i] IN
    (c.fn = "isValidTransition" /\ c.a \in SpecStatuses /\ c.b \in SpecStatuses)
      => c.out = Returned(<<c.a, c.b>> \in SpecGraph)

\* C1 witness: the reverse edge processing -> draft was asked and refused, and
\* the edge draft -> processing was asked and granted
C1_Witness ==
  /\ Len(calls) = 2
  /\ calls[1] = [fn |-> "isValidTransition", a |-> "processing", b |-> "draft",
                 out |-> Returned(FALSE)]
  /\ calls[2] = [fn |-> "isValidTransition", a |-> "draft", b |-> "processing",
                 out |-> Returned(TRUE)]

\* C2: once an order's stored status is completed or cancelled, no step of
\* any request changes it again.
C2_TerminalStays ==
  [][\A o \in DOMAIN orders :
       orders[o].status \in Terminal => orders'[o].status = orders[o].status]_vars

\* a committed table changed: an existing order's status, the flows, or the
\* histories other than by a new order's "created" record
StatusesChanged == \E o \in DOMAIN orders : orders'[o].status # orders[o].status
AuditChanged ==
  \/ flows' # flows
  \/ \E o \in OrderIds : StatusChangesIn(histories', o) # StatusChangesOf(o)

\* the step is the successful commit of request r's transition: the status,
\* the flow record and the history record appear together
CommitsTransition(r) ==
  LET a == req[r].args IN
  /\ req[r].pc = "commit" /\ req'[r].pc = "done"
  /\ orders' = [orders EXCEPT ![a.orderId].status = a.toStatus]
  /\ Len(flows') = Len(flows) + 1
  /\ flows' = Append(flows,
       [orderId |-> a.orderId, fromStatus |-> a.fromStatus, toStatus |-> a.toStatus,
        operator |-> a.operator, remark |-> a.remark,
        createdAt |-> flows'[Len(flows')].createdAt])
  /\ Len(histories') = Len(histories) + 1
  /\ StatusChangesIn(histories', a.orderId) =
       Append(StatusChangesOf(a.orderId), histories'[Len(histories')])

\* what a reader of the committed tables sees of order o is consistent: as
\* many flow records as status_changed records, and the stored status is the
\* toStatus of the latest flow record (draft when there is none)
ReaderConsistent(o) ==
  /\ Len(FlowsOf(o)) = Len(StatusChangesOf(o))
  /\ orders[o].status =
       IF Len(FlowsOf(o)) = 0 THEN "draft" ELSE FlowsOf(o)[Len(FlowsOf(o))].toStatus

\* C3: on the HTTP path a transition is atomic: the committed status, flows
\* and histories change only in the successful commit of a request, all three
\* together; a request whose update, insert or commit failed goes through its
\* rollback, never to a 200 response, without changing them; and a reader
\* never sees the new status without both audit records or the reverse.
C3_AtomicOnHttpPath ==
  /\ [](\A o \in DOMAIN orders : ReaderConsistent(o))
  /\ [][/\ (StatusesChanged \/ AuditChanged) => \E r \in Reqs : CommitsTransition(r)
        /\ \A r \in Reqs :
             (req'[r] # req[r] /\ (req[r].pc = "catch" \/ req'[r].pc = "catch"))
               => UNCHANGED <<orders, flows, histories>>
        /\ \A r \in Reqs :
             (req'[r] # req[r] /\ req[r].pc = "catch")
               => (req'[r].pc = "done" /\ req'[r].http \in {0, 400}
                     /\ tx'[r] = NoTx)]_vars

\* C3 witness: a request whose flow insert succeeded and whose history insert
\* failed is in its catch block, with the status update and the flow record
\* still private to its transaction
C3_Witness ==
  \E r \in Reqs :
    /\ req[r].pc = "catch" /\ req[r].route = "status"
    /\ req[r].nWrites = 2
    /\ Len(tx[r].updates) = 1 /\ Len(tx[r].flows) = 1
    /\ orders[req[r].args.orderId].status # req[r].args.toStatus

\* the committed tables hold nothing that the latest direct call wrote
AsBeforeCall ==
  /\ \A o \in DOMAIN snap.orders : orders[o] = snap.orders[o]
  /\ flows = snap.flows
  /\ \A o \in OrderIds : StatusChangesOf(o) = StatusChangesIn(snap.histories, o)

\* C4: whenever a call of transitionStatus ended with a throw, whatever its
\* transaction argument, none of its writes remains: the committed status,
\* flows and histories are as when the call began.
C4_ExecutorAllOrNothing == snap.outcome = "threw" => AsBeforeCall

C6_ForbiddenIsDistinctKind ==
  \A r \in Reqs :
    LET q == req[r]
        a == q.args
    IN (q.route = "direct" /\ <<a.fromStatus, a.toStatus>> \in SpecGraph
          /\ a.role # "admin")
         => /\ q.pc = "catch"
            /\ q.nWrites = 0
            /\ q.err.name # InvalidTransitionError(a.fromStatus, a.toStatus).name

IsPrefix(s, t) == Len(s) <= Len(t) /\ \A i \in 1..Len(s) : s[i] = t[i]

\* C7: for each order the number of flow records, the number of
\* status_changed history records and the number of committed transitions
\* are equal, and flows and histories only ever grow at their end.
C7_OneRecordPairPerCommit ==
  /\ [](\A o \in OrderIds : /\ Len(FlowsOf(o)) = nCommitted[o]
                            /\ Len(StatusChangesOf(o)) = nCommitted[o])
  /\ [][IsPrefix(flows, flows') /\ IsPrefix(histories, histories')]_vars

\* C7 witness: one transition of order 1 is committed and recorded once,
\* another request is rolling back after its three writes, and one was refused
C7_Witness ==
  /\ nCommitted[1] = 1 /\ Len(FlowsOf(1)) = 1 /\ Len(StatusChangesOf(1)) = 1
  /\ \E r \in Reqs : req[r].pc = "catch" /\ req[r].nWrites = 3

\* how many times x occurs in the sequence s
Occurrences(s, x) == Cardinality({i \in 1..Len(s) : s[i] = x})

\* the sequence later holds the records of earlier and x once more
OneMore(earlier, later, x) ==
  /\ Len(later) = Len(earlier) + 1
  /\ Occurrences(later, x) = Occurrences(earlier, x) + 1
  /\ \A i \in 1..Len(later) :
       later[i] # x => Occurrences(later, later[i]) = Occurrences(earlier, later[i])

\* C8: the commit of a transition of order o from f to t by operator p with
\* remark r adds exactly one record to getStatusFlowHistory(o): whatever the
\* reader returned before and returns after, the later result holds the
\* earlier one's records and one more, with these four values and the two
\* statuses' descriptions.
C8_RoundTrip ==
  [][\A r \in Reqs :
       (req[r].pc = "commit" /\ req'[r].pc = "done")
         => LET a == req[r].args IN
            \A earlier \in getStatusFlowHistory(a.orderId) :
              \A later \in FlowHistoriesIn(flows', a.orderId) :
                \E k \in 1..Len(later) :
                  /\ later[k].fromStatus = a.fromStatus
                  /\ later[k].toStatus = a.toStatus
                  /\ later[k].fromStatusDesc = getStatusDescription(a.fromStatus)
                  /\ later[k].toStatusDesc = getStatusDescription(a.toStatus)
                  /\ later[k].operator = a.operator
                  /\ later[k].remark = a.remark
                  /\ OneMore(earlier, later, later[k])]_vars

\* C8 witness: order 1, a draft, was moved to processing by wx1 with the
\* remark "note": its history is that one entry
C8_Witness ==
  /\ orders # <<>> /\ orders[1].status = "processing"
  /\ getStatusFlowHistory(1) =
       {<<[fromStatus |-> "draft", toStatus |-> "processing",
           fromStatusDesc |-> "caogao", toStatusDesc |-> "chulizhong",
           operator |-> "wx1", remark |-> "note", createdAt |-> 1]>>}

\* two requests on order o that both read draft at the boundary, one for
\* processing and one for cancelled, have both committed
BothCommitted(o) ==
  LET h == FlowsOf(o) IN
  \E i, j \in 1..Len(h) :
    /\ h[i].fromStatus = "draft" /\ h[i].toStatus = "processing"
    /\ h[j].fromStatus = "draft" /\ h[j].toStatus = "cancelled"

\* C9: when two requests on one order that both read draft, one targeting
\* processing and one cancelled, have both committed, the stored status is
\* the target of the status update applied last, and the flow history holds
\* a record whose toStatus is not the stored status.
C9_LastUpdateWins ==
  \A o \in DOMAIN orders :
    LET h == FlowsOf(o) IN
    BothCommitted(o)
      => /\ orders[o].status = h[Len(h)].toStatus
         /\ \E k \in 1..Len(h) : h[k].toStatus # orders[o].status

\* C9 witness: both passed validation and both committed, the cancellation
\* first: the order is stored as processing and its history holds a
\* cancellation
C9_Witness ==
  /\ orders # <<>>
  /\ BothCommitted(1)
  /\ Len(FlowsOf(1)) = 2
  /\ FlowsOf(1)[1].toStatus = "cancelled"
  /\ orders[1].status = "processing"

\* C10: a call of transitionStatus with a graph edge and a permitted role is
\* never refused, whatever the stored status is; when it returns, the stored
\* status is its toStatus and the latest flow record of the order carries the
\* fromStatus of the call.
C10_FromStatusAdvisory ==
  /\ \A r \in Reqs :
       LET q == req[r]
           a == q.args
       IN (q.route = "direct" /\ q.pc = "catch"
             /\ <<a.fromStatus, a.toStatus>> \in SpecGraph /\ a.role = "admin")
            => q.err = PersistenceError
  /\ snap.outcome = "returned"
       => LET a == snap.args
              h == FlowsOf(a.orderId)
          IN /\ orders[a.orderId].status = a.toStatus
             /\ Len(h) = Len(FlowsIn(snap.flows, a.orderId)) + 1
             /\ h[Len(h)].fromStatus = a.fromStatus
             /\ h[Len(h)].toStatus = a.toStatus

\* C10 witness: a call draft -> processing returned on an order whose stored
\* status was cancelled when the call began
C10_Witness ==
  /\ snap.outcome = "returned"
  /\ snap.args.fromStatus = "draft" /\ snap.args.toStatus = "processing"
  /\ snap.orders[snap.args.orderId].status = "cancelled"
  /\ orders[snap.args.orderId].status = "processing"

\* the status of order id as the transaction t sees it: its own update, if it
\* made one, over the committed row
StatusSeenBy(t, tbl, id) ==
  IF Len(t.updates) > 0 /\ t.updates[1].id = id
  THEN t.updates[1].status ELSE tbl[id].status

\* C11: whenever transitionStatus returns its success result, the order it
\* was called for exists and its stored status, as the call's transaction
\* sees it (the committed one when there is no transaction), is the call's
\* toStatus: a call whose update matched no order never returns success.
C11_NoNoOpSuccess ==
  [][\A r \in Reqs :
       (req[r].pc = "ts_history" /\ req'[r].pc \in {"commit", "done"})
         => LET a == req[r].args IN
            /\ a.orderId \in DOMAIN orders'
            /\ StatusSeenBy(tx'[r], orders', a.orderId) = a.toStatus]_vars

\* C11 witness: a call for an id no order has made its update, which matched
\* nothing, and was thrown out of its flow insert
C11_Witness ==
  \E r \in Reqs :
    LET a == req[r].args IN
    /\ req[r].route = "direct" /\ req[r].pc = "catch" /\ req[r].nWrites = 1
    /\ a.orderId = AbsentOrderId
    /\ <<a.fromStatus, a.toStatus>> \in SpecGraph /\ a.role = "admin"
    /\ orders # <<>>

\* C12: canCancelOrder(order) answers canCancel = true exactly when
\* order.status is draft or processing; for completed, cancelled and every
\* other value of status it answers canCancel = false with a reason that is
\* not the empty string.
C12_CanCancelIffOpen ==
  \A i \in 1..Len(calls) :
    LET c == calls[i] IN
    c.fn = "canCancelOrder"
      => /\ c.out.canCancel <=> (c.a \in {"draft", "processing"})
         /\ ~c.out.canCancel => c.out.reason # ""

\* C12 witness: asked for a completed order and for a draft order
C12_Witness ==
  /\ Len(calls) = 2
  /\ calls[1].fn = "canCancelOrder" /\ calls[1].a = "completed"
  /\ ~calls[1].out.canCancel
  /\ calls[1].out.reason = "dingdan zhuangtai wei yiwancheng, wufa quxiao"
  /\ calls[2].fn = "canCancelOrder" /\ calls[2].a = "draft"
  /\ calls[2].out.canCancel

\* C13: for every status value s, registered or not, canCancelOrder of an
\* order with status s answers canCancel = true if and only if
\* isValidTransition(s, cancelled) answers true.
C13_CancelPolicyMatchesGraph ==
  \A i, j \in 1..Len(calls) :
    LET c == calls[i]
        v == calls[j]
    IN (c.fn = "canCancelOrder" /\ v.fn = "isValidTransition"
          /\ v.a = c.a /\ v.b = "cancelled")
         => (c.out.canCancel <=> (~v.out.threw /\ v.out.value))

\* C13 witness: both functions were asked about processing and both said yes
C13_Witness ==
  /\ Len(calls) = 2
  /\ calls[1].fn = "canCancelOrder" /\ calls[1].a = "processing"
  /\ calls[1].out.canCancel
  /\ calls[2].fn = "isValidTransition" /\ calls[2].a = "processing"
  /\ calls[2].b = "cancelled" /\ calls[2].out = Returned(TRUE)

C16_PermissionIffPermitted ==
  \A i \in 1..Len(calls) :
    LET c == calls[i] IN
    c.fn = "hasPermission"
      => c.out = Returned(c.a = "admin" /\ c.b \in SpecStatuses)

\* C17: getAvailableTransitions(s) answers the empty list, without an error,
\* for completed, for cancelled and for every s that is not in the registry,
\* and isValidTransition(s, t) answers false for every such s and every t.
C17_NoEdgesFromTerminalOrUnknown ==
  \A i \in 1..Len(calls) :
    LET c == calls[i] IN
    /\ (c.fn = "getAvailableTransitions" /\ c.a \notin {"draft", "processing"})
         => c.out = Array(<<>>)
    /\ (c.fn = "isValidTransition" /\ c.a \notin {"draft", "processing"})
         => c.out = Returned(FALSE)

\* the registry's graph: the targets of s, and what is reachable from a set
\* of statuses in one to n steps
Successors(s) == {STATUS_TRANSITIONS[s][i] : i \in 1..Len(STATUS_TRANSITIONS[s])}
StepsFrom(S) == UNION {Successors(s) : s \in S \cap DOMAIN STATUS_TRANSITIONS}
RECURSIVE Reach(_, _)
Reach(S, n) ==
  IF n = 0 THEN {} ELSE LET N == StepsFrom(S) IN N \cup Reach(N, n - 1)
ReachableFrom(s) == Reach({s}, Cardinality(DOMAIN STATUS_TRANSITIONS))
Sinks == {s \in DOMAIN STATUS_TRANSITIONS : Successors(s) = {}}

\* C18: the graph the registry holds has no cycle, its sinks are exactly
\* completed and cancelled, draft and processing each have an outgoing edge,
\* and from each of the two a sink is reachable; getAvailableTransitions
\* answers with this graph.
C18_GraphAcyclicTwoSinks ==
  /\ DOMAIN STATUS_TRANSITIONS = SpecStatuses
  /\ \A s \in DOMAIN STATUS_TRANSITIONS :
       /\ Successors(s) \subseteq DOMAIN STATUS_TRANSITIONS
       /\ s \notin ReachableFrom(s)
  /\ Sinks = {"completed", "cancelled"}
  /\ \A s \in {"draft", "processing"} :
       /\ Successors(s) # {}
       /\ ReachableFrom(s) \cap Sinks # {}
  /\ \A i \in 1..Len(calls) :
       LET c == calls[i] IN
       (c.fn = "getAvailableTransitions" /\ c.a \in SpecStatuses)
         => /\ c.out.type = "array"
            /\ {c.out.items[k] : k \in 1..Len(c.out.items)} = Successors(c.a)
            /\ c.a \notin {c.out.items[k] : k \in 1..Len(c.out.items)}

\* C18 witness: the outgoing edges of draft and of a sink were asked for
C18_Witness ==
  /\ Len(calls) = 2
  /\ calls[1] = [fn |-> "getAvailableTransitions", a |-> "draft", b |-> Undefined,
                 out |-> Array(<<"processing", "cancelled">>)]
  /\ calls[2] = [fn |-> "getAvailableTransitions", a |-> "cancelled",
                 b |-> Undefined, out |-> Array(<<>>)]

\* C19: every stored status is one of draft, processing, completed and
\* cancelled; an order comes into being with status draft; and whenever the
\* status of an existing order changes, the new value is the toStatus of a
\* call of transitionStatus whose (fromStatus, toStatus) passed
\* isValidTransition.
C19_StatusAlwaysValid ==
  /\ [](\A o \in DOMAIN orders : orders[o].status \in SpecStatuses)
  /\ [][/\ \A o \in DOMAIN orders' \ DOMAIN orders : orders'[o].status = "draft"
        /\ \A o \in DOMAIN orders :
             orders'[o].status # orders[o].status
               => \E r \in Reqs :
                    LET a == req[r].args IN
                    /\ req[r].pc \in {"ts_update", "commit"}
                    /\ a.orderId = o /\ a.toStatus = orders'[o].status
                    /\ isValidTransition(a.fromStatus, a.toStatus) = Returned(TRUE)]_vars

\* C19 witness: order 1 went from draft to processing while order 2 is still
\* the draft it was created as, and the latest call, for a status outside the
\* enumeration, was thrown out
C19_Witness ==
  /\ Len(orders) = 2
  /\ orders[1].status = "processing" /\ Len(FlowsOf(1)) = 1
  /\ orders[2].status = "draft" /\ FlowsOf(2) = <<>>
  /\ \E r \in Reqs : req[r].pc = "catch" /\ req[r].args.toStatus = UnknownStatus

\* C20: only the executor changes the status of an existing order. Whenever
\* the stored status of an order changes, the step is the status write of a
\* call of transitionStatus for that order (its Order.update without a
\* transaction, or the commit of the transaction it wrote in); and no step
\* of the validation middleware, of updateOrder or of getOrderById (which
\* calls getStatusFlowHistory) changes the status of any order.
C20_OnlyExecutorWritesStatus ==
  [][/\ \A o \in DOMAIN orders :
          orders'[o].status # orders[o].status
            => \E r \in Reqs :
                 /\ req[r].route \in {"status", "cancel", "direct"}
                 /\ req[r].args.orderId = o
                 /\ req'[r] # req[r]
                 /\ \/ req[r].pc = "ts_update" /\ ~req[r].args.transaction
                    \/ /\ req[r].pc = "commit"
                       /\ \E i \in 1..Len(tx[r].updates) : tx[r].updates[i].id = o
     /\ \A r \in Reqs :
          (/\ req'[r] # req[r]
           /\ \/ req[r].pc = "mw"
              \/ req[r].route \in {"update", "get"}
              \/ req'[r].route \in {"update", "get"})
            => \A o \in DOMAIN orders : orders'[o].status = orders[o].status]_vars

\* an edit of a draft order was committed after a transition of the same
\* order that ran while the edit was open: the order has the edit's remark
\* and the transition's status
C20_Witness ==
  \E o \in DOMAIN orders :
    /\ orders[o].remark = "edited"
    /\ orders[o].status = "processing"
    /\ Len(FlowsOf(o)) = 1
    /\ \E i, j \in 1..Len(histories) :
         /\ i < j
         /\ histories[i].orderId = o /\ histories[i].action = "status_changed"
         /\ histories[j].orderId = o /\ histories[j].action = "order_updated"

\* the fields of an order row other than its status
OtherFields(row) == DOMAIN row \ {"status"}

ReaderCalls == {i \in 1..Len(calls) : calls[i].fn = "getStatusFlowHistory"}

\* C22: getStatusFlowHistory(orderId) returns the flow records of that order
\* and no others, in the order they were created, and the history only
\* grows at its end: what an earlier call returned is a prefix of what any
\* later call for the same order returns.
C22_HistoryAscendingAppendOnly ==
  \A i \in ReaderCalls :
    /\ calls[i].out = [k \in 1..Len(calls[i].b) |-> FlowView(calls[i].b[k])]
    /\ \A j \in ReaderCalls :
         (i < j /\ calls[i].a = calls[j].a) => IsPrefix(calls[i].out, calls[j].out)

\* C23: reading is idempotent. Two calls of getStatusFlowHistory for one
\* order with no committed write between them return identical sequences.
C23_ReadIdempotent ==
  \A i \in ReaderCalls : \A j \in ReaderCalls :
    (calls[i].a = calls[j].a /\ calls[i].at = calls[j].at)
      => calls[i].out = calls[j].out

\* C24: the validator's, registry's and reader's operations have no side
\* effects. A step that is a call of one of them leaves every order, every
\* flow and history record, and every open transaction as they were (the
\* registry's tables are constants); and a call repeated with the same
\* arguments returns the same result: always for the five functions of the
\* registry and validator, and while nothing was committed in between for
\* the reader.
C24_ReadOnlyOperations ==
  /\ [][calls' # calls
          => /\ orders' = orders /\ flows' = flows /\ histories' = histories
             /\ tx' = tx /\ lock' = lock /\ req' = req]_vars
  /\ [](\A i \in 1..Len(calls) : \A j \in 1..Len(calls) :
          (/\ calls[i].fn = calls[j].fn
           /\ calls[i].a = calls[j].a
           /\ calls[i].b = calls[j].b
           /\ calls[i].fn = "getStatusFlowHistory" => calls[i].at = calls[j].at)
            => calls[i].out = calls[j].out)

\* C25: the executor's writes are scoped to the transaction it is given.
\* While a call that was given a transaction runs (its three writes, or a
\* throw of one of them), the transaction stays open (the executor neither
\* commits nor rolls it back) and the tables that other requests read are
\* unchanged; what the call wrote is in its transaction only. The writes
\* reach the tables in the caller's commit, all three at once, and a
\* rollback by the caller, also after the call returned success, leaves the
\* tables as they were and discards the transaction's writes.
C25_WritesScopedToTransaction ==
  [][\A r \in Reqs :
       LET q == req[r]
           a == q.args
       IN
       (/\ req'[r] # q
        /\ q.route \in {"status", "cancel", "direct"}
        /\ a.transaction)
         => /\ q.pc \in {"ts_update", "ts_flow", "ts_history"}
                 => /\ tx[r].state = "open" /\ tx'[r].state = "open"
                    /\ UNCHANGED <<orders, flows, histories>>
                    /\ req'[r].pc # "catch"
                         => Len(tx'[r].updates) + Len(tx'[r].flows) + Len(tx'[r].hist)
                              = q.nWrites + 1
            /\ (q.pc = "commit" /\ req'[r].pc = "done")
                 => /\ orders' = ApplyUpdates(orders, tx[r].updates)
                    /\ flows' = flows \o tx[r].flows
                    /\ histories' = histories \o tx[r].hist
                    /\ Len(tx[r].updates) = 1 /\ Len(tx[r].flows) = 1
                    /\ Len(tx[r].hist) = 1
            /\ q.pc = "catch"
                 => /\ UNCHANGED <<orders, flows, histories>>
                    /\ tx'[r] = NoTx]_vars

\* a call that was given a transaction returned success, the caller's commit
\* failed and the caller is about to roll back: the three writes are in the
\* transaction, and the tables still show the order as it was
C25_Witness ==
  \E r \in Reqs :
    LET q == req[r] IN
    /\ q.pc = "catch" /\ q.nWrites = 3 /\ q.args.transaction
    /\ tx[r].state = "open"
    /\ Len(tx[r].updates) = 1 /\ Len(tx[r].flows) = 1 /\ Len(tx[r].hist) = 1
    /\ orders[q.args.orderId].status = "draft"
    /\ tx[r].updates[1].status = "processing"
    /\ FlowsOf(q.args.orderId) = <<>>
    /\ StatusChangesOf(q.args.orderId) = <<>>

\* the rows of each kind that request r's call has written, in its
\* transaction or, without one, in the tables
WrittenBy(t, f, h, a) ==
  IF a.transaction
  THEN [flows |-> Len(t.flows), hist |-> Len(t.hist)]
  ELSE [flows |-> Len(f), hist |-> Len(h)]

\* C26: within one transition the writes happen in a fixed order, each begun
\* after the one before it completed: the status update as first write, the
\* flow insert as second, the history insert as third. A step that writes a
\* flow or history record is taken by a call whose status update has
\* completed and is still in effect for the call (in its transaction, or in
\* the table when it has none).
C26_WritesInOrder ==
  [][\A r \in Reqs :
       LET q == req[r]
           a == q.args
           before == WrittenBy(tx[r], flows, histories, a)
           after == WrittenBy(tx'[r], flows', histories', a)
       IN
       (req'[r] # q /\ q.route \in {"status", "cancel", "direct"})
         => /\ q.pc = "ts_update"
                 => q.nWrites = 0 /\ req'[r].pc \in {"ts_flow", "catch"}
            /\ q.pc = "ts_flow"
                 => q.nWrites = 1 /\ req'[r].pc \in {"ts_history", "catch"}
            /\ q.pc = "ts_history"
                 => q.nWrites = 2 /\ req'[r].pc \in {"commit", "done", "catch"}
            /\ (q.pc \in {"handler", "idle", "done", "ts_update"})
                 => after = before
            /\ after.flows > before.flows
                 => /\ q.pc = "ts_flow" /\ before.hist = after.hist
                    /\ a.orderId \in DOMAIN orders
                    /\ StatusSeenBy(tx[r], orders, a.orderId) = a.toStatus
            /\ after.hist > before.hist
                 => /\ q.pc = "ts_history" /\ before.flows = after.flows
                    /\ a.orderId \in DOMAIN orders
                    /\ StatusSeenBy(tx[r], orders, a.orderId) = a.toStatus]_vars

\* a call without a transaction between its second and its third write: the
\* order has the new status and its flow record, not yet its history record
C26_Witness ==
  \E r \in Reqs :
    LET q == req[r] IN
    /\ q.pc = "ts_history" /\ q.nWrites = 2 /\ ~q.args.transaction
    /\ orders[q.args.orderId].status = q.args.toStatus
    /\ Len(FlowsOf(q.args.orderId)) = 1
    /\ StatusChangesOf(q.args.orderId) = <<>>

\* C27: the role and the operator of a status change are the server's. On
\* both routes the boundary decides as it does for role admin, whatever the
\* body says (a failure of the order lookup aside): an order that may take
\* the transition goes on to the handler with role admin, one that may not is
\* answered 400, and 403 only if admin lacked the permission; the handler
\* calls the executor with role admin and with the x-wx-openid header, or
\* "unknown", as operator.
C27_RoleAndOperatorServerControlled ==
  [][\A r \in Reqs :
       LET q == req[r] IN
       /\ (req'[r] # q /\ q.pc = "mw" /\ q.id \in DOMAIN orders
             /\ req'[r].http # 500)
            => LET order == orders[q.id]
                   target == IF q.route = "cancel" THEN STATUS.CANCELLED
                             ELSE q.status
                   legal == IF q.route = "cancel"
                            THEN canCancelOrder(order).canCancel
                            ELSE isValidTransition(order.status, target)
                                   = Returned(TRUE)
                   permitted == hasPermission("admin", target) = Returned(TRUE)
               IN IF legal /\ permitted
                  THEN req'[r].pc = "handler" /\ req'[r].role = "admin"
                  ELSE /\ req'[r].pc = "done"
                       /\ req'[r].http = (IF legal THEN 403 ELSE 400)
       /\ (req'[r] # q /\ q.pc = "handler")
            => /\ req'[r].args.role = "admin"
               /\ req'[r].args.operator
                    \in {OperatorOf(s.openid) : s \in CancelSenders}]_vars

\* C28: getStatusDescription(s) never fails. It returns the registered label
\* for each of the four statuses and s itself for every other value.
C28_DescriptionOrEcho ==
  \A i \in 1..Len(calls) :
    LET c == calls[i] IN
    c.fn = "getStatusDescription"
      => c.out = (IF c.a \in SpecStatuses THEN STATUS_DESCRIPTIONS[c.a] ELSE c.a)

\* C29: for each order the flow history is a chain. An order without flow
\* records is a draft; otherwise the first record starts from draft, each
\* later record starts from the status the record before it ended in, and
\* the last record ends in the order's stored status.
C29_FlowHistoryIsChain ==
  \A o \in DOMAIN orders :
    LET h == FlowsOf(o) IN
    IF h = <<>> THEN orders[o].status = "draft"
    ELSE /\ h[1].fromStatus = "draft"
         /\ \A i \in 2..Len(h) : h[i].fromStatus = h[i - 1].toStatus
         /\ h[Len(h)].toStatus = orders[o].status

\* C30: every flow record is an edge of the transition graph; in particular
\* none starts from a terminal status and none ends in draft.
C30_FlowRecordsAreEdges ==
  \A i \in 1..Len(flows) :
    /\ <<flows[i].fromStatus, flows[i].toStatus>> \in SpecGraph
    /\ flows[i].fromStatus \notin Terminal
    /\ flows[i].toStatus # "draft"

\* two requests that both read the order as a draft have both committed: the
\* order's two flow records are edges that both start from draft
C30_Witness ==
  /\ orders # <<>>
  /\ Len(FlowsOf(1)) = 2
  /\ FlowsOf(1)[1].fromStatus = "draft" /\ FlowsOf(1)[1].toStatus = "processing"
  /\ FlowsOf(1)[2].fromStatus = "draft" /\ FlowsOf(1)[2].toStatus = "cancelled"
  /\ orders[1].status = "cancelled"

\* a flow record f and a history record h tell of the same transition
RecordsAgree(f, h) ==
  /\ h.orderId = f.orderId
  /\ h.operator = f.operator
  /\ h.changes.fromStatus = f.fromStatus
  /\ h.changes.toStatus = f.toStatus
  /\ h.action = "status_changed"
  /\ h.description =
       "dingdan zhuangtai cong " \o getStatusDescription(f.fromStatus)
         \o " biangeng wei " \o getStatusDescription(f.toStatus)

\* C31: the flow record and the history record written by the same
\* transition agree: same order, operator, fromStatus and toStatus (the
\* history record has them in changes, with the role used), the action is
\* status_changed, and the description is the one of the success result, made
\* of the descriptions of fromStatus and toStatus. It holds of the two rows as
\* the call writes them and of the committed tables, where the i-th flow
\* record of an order goes with its i-th status_changed record.
C31_FlowAndHistoryAgree ==
  /\ [](\A o \in DOMAIN orders :
          /\ Len(FlowsOf(o)) = Len(StatusChangesOf(o))
          /\ \A i \in 1..Len(FlowsOf(o)) :
               /\ RecordsAgree(FlowsOf(o)[i], StatusChangesOf(o)[i])
               /\ StatusChangesOf(o)[i].changes.role = "admin")
  /\ [][\A r \in Reqs :
          (req[r].pc = "ts_history" /\ req'[r].pc = "commit")
            => LET a == req[r].args
                   f == tx[r].flows[Len(tx[r].flows)]
                   h == tx'[r].hist[Len(tx'[r].hist)]
               IN /\ Len(tx'[r].hist) = Len(tx[r].hist) + 1
                  /\ RecordsAgree(f, h)
                  /\ f.orderId = a.orderId /\ f.operator = a.operator
                  /\ f.fromStatus = a.fromStatus /\ f.toStatus = a.toStatus
                  /\ h.changes.role = a.role
                  /\ h.description = SuccessResult(a).description]_vars

\* C31 witness: the transition of order 1 from draft to processing by wx1 is
\* committed with its flow record and its history record
C31_Witness ==
  /\ orders # <<>> /\ orders[1].status = "processing"
  /\ Len(FlowsOf(1)) = 1 /\ Len(StatusChangesOf(1)) = 1
  /\ FlowsOf(1)[1].operator = "wx1"
  /\ StatusChangesOf(1)[1].operator = "wx1"
  /\ StatusChangesOf(1)[1].description =
       "dingdan zhuangtai cong caogao biangeng wei chulizhong"

\* the committed tables are as they were
TablesUnchanged == UNCHANGED <<orders, flows, histories>>

C33_ExecutorAcceptsWhatBoundaryAccepted ==
  [][\A r \in Reqs :
       LET q == req[r]
           n == req'[r]
       IN
       /\ (q.pc = "mw" /\ n.pc = "handler")
            => LET target == IF q.route = "status" THEN q.status ELSE STATUS.CANCELLED
               IN /\ isValidTransition(n.cur, target) = Returned(TRUE)
                  /\ hasPermission("admin", target) = Returned(TRUE)
       /\ (q.pc = "handler" /\ n # q)
            => /\ n.pc = "ts_update"
               /\ n.args.fromStatus = q.cur
               /\ isValidTransition(n.args.fromStatus, n.args.toStatus) = Returned(TRUE)
               /\ hasPermission(n.args.role, n.args.toStatus) = Returned(TRUE)
       /\ (n.pc = "catch" /\ q.pc # "catch")
            => /\ n.err = PersistenceError
               /\ q.pc \in {"ts_update", "ts_flow", "ts_history", "commit"}]_vars

\* C33 witness: order 1 was cancelled after a request for processing had
\* passed the middleware on the draft; that request has entered
\* transitionStatus from draft all the same and is about to write
C33_Witness ==
  \E r \in Reqs :
    /\ req[r].pc = "ts_update" /\ req[r].route = "status"
    /\ req[r].args.fromStatus = "draft" /\ req[r].args.toStatus = "processing"
    /\ orders[req[r].id].status = "cancelled"

\* where a handler is when it calls transaction.rollback() in its catch block
CatchBlocks == {"catch", "uo_catch", "co_catch"}

\* C34: every transaction opened by createOrder, updateOrder,
\* updateOrderStatus or cancelOrder is eventually finished, exactly once, by
\* commit or by rollback: a handler that has returned has left no
\* transaction open, every open transaction is finished in the end, and
\* rollback is only called on a transaction that is still open (not on one
\* that was committed or rolled back).
C34_TransactionsFinishedOnce ==
  /\ [](\A r \in Reqs : req[r].pc \in {"idle", "done"} => tx[r].state = "none")
  /\ [][\A r \in Reqs :
          (req[r].pc \in CatchBlocks /\ req'[r] # req[r]) => tx[r].state = "open"]_vars
  /\ \A r \in Reqs : (tx[r].state = "open") ~> (tx[r].state # "open")

\* C35: only draft orders are edited. Under any interleaving of updateOrder
\* with updateOrderStatus or cancelOrder on the same order, the commit of an
\* updateOrder changes the order's fields (here the remark) only while the
\* stored status is draft; and an updateOrder that reads a status other than
\* draft is answered 400 (500 if the read itself fails) and writes nothing.
C35_OnlyDraftsEdited ==
  [][\A r \in Reqs :
       LET q == req[r]
           n == req'[r]
       IN
       /\ (q.pc = "uo_commit" /\ n.pc = "done"
             /\ orders'[q.id].remark # orders[q.id].remark)
            => orders[q.id].status = "draft"
       /\ (q.pc = "uo_find" /\ n # q /\ q.id \in DOMAIN orders
             /\ orders[q.id].status # "draft")
            => /\ \/ n = BadRequest("zhiyou caogao zhuangtai de dingdan keyi xiugai")
                  \/ n.pc = "uo_catch"
               /\ tx'[r].edits = <<>> /\ tx'[r].hist = <<>>
               /\ TablesUnchanged]_vars

====
